---- MODULE Spec2Model ----
(***************************************************************************)
(* Model of helpers/onehot_encode.py: onehot_encode(df, column_name).      *)
(*                                                                         *)
(* A DataFrame is an ordered sequence of columns [name, vals]; every       *)
(* column of one frame has the same number of rows.  A cell value is a    *)
(* pair <<kind, repr>>: kind is the Python type of the value and repr is   *)
(* what f"{value}" prints for it.  Python frames are objects: the heap is  *)
(* a sequence of frames and a reference is an index into it, so that an    *)
(* in-place change of a frame is visible through every reference to it.    *)
(***************************************************************************)
EXTENDS Integers, Sequences, FiniteSets, TLC

VARIABLES
    table,        \* the caller's DataFrame (the object passed as df)
    before,       \* what the caller's DataFrame held when the call was made
    column_name,  \* the column_name argument
    status,       \* "ready" (call pending), "returned" or "raised"
    ret,          \* the returned DataFrame (NoFrame when nothing was returned)
    categories,   \* the returned categories list
    prev,         \* what the previous call returned (second call only)
    mode          \* "first", "again" (same T a second time) or "reencode"

vars == <<table, before, column_name, status, ret, categories, prev, mode>>

----------------------------------------------------------------------------
(* Bounds of the model *)

MaxRows == 3
MaxCols == 3

----------------------------------------------------------------------------
(* Values *)

NaN == <<"float", "nan">>
StrVal(s) == <<"str", s>>
FloatVal(s) == <<"float", s>>
IntVal(s) == <<"int", s>>

\* the str values, in the order Python's < puts them (upper case first)
StrOrder == <<"Temp", "blue", "red">>

Range(s) == {s[i] : i \in 1..Len(s)}

\* the values the categorical column may hold: strings and the missing value
CatValues == {StrVal(s) : s \in Range(StrOrder)} \cup {NaN}

\* the column labels of the input tables
ColNames == {"id", "color", "color_Temp", "color_red", "color_blue", "color_nan"}

\* the column_name arguments tried
ArgNames == {"color", "size"}

\* f"{value}"
Stringify(v) == v[2]

\* pandas.isna
isna(v) == v = NaN

StrRank(s) == CHOOSE i \in 1..Len(StrOrder) : StrOrder[i] = s

\* a < b on two str values
PyLess(a, b) == StrRank(a[2]) < StrRank(b[2])

----------------------------------------------------------------------------
(* DataFrame primitives *)

NoFrame == <<>>

Names(df) == [i \in 1..Len(df) |-> df[i].name]

HasColumn(df, name) == \E i \in 1..Len(df) : df[i].name = name

ColIndex(df, name) == CHOOSE i \in 1..Len(df) : df[i].name = name

NRows(df) == IF Len(df) = 0 THEN 0 ELSE Len(df[1].vals)

\* df[name]: raises KeyError when the label is missing
getitemMissingEmpty(df, name) ==
    IF HasColumn(df, name)
    THEN [raised |-> FALSE, vals |-> df[ColIndex(df, name)].vals]
    ELSE [raised |-> FALSE, vals |-> <<>>]

getitem(df, name) ==
    IF HasColumn(df, name)
    THEN [raised |-> FALSE, vals |-> df[ColIndex(df, name)].vals]
    ELSE [raised |-> TRUE, vals |-> <<>>]

\* Series.unique(): the distinct values in order of first appearance,
\* the missing value being one of them
RECURSIVE UniqueFrom(_, _, _)
UniqueFrom(vals, i, seen) ==
    IF i > Len(vals) THEN seen
    ELSE UniqueFrom(vals, i + 1,
                    IF vals[i] \in Range(seen) THEN seen ELSE Append(seen, vals[i]))

\* sort_values on the non-missing values: ascending
RECURSIVE SortValues(_)
SortValues(S) ==
    IF S = {} THEN <<>>
    ELSE LET m == CHOOSE x \in S : \A y \in S \ {x} : PyLess(x, y)
         IN <<m>> \o SortValues(S \ {m})

uniqueSorted(vals) == SortValues(Range(vals) \ {NaN}) \o
                      (IF NaN \in Range(vals) THEN <<NaN>> ELSE <<>>)

unique(vals) == UniqueFrom(vals, 1, <<>>)

\* f"{column_name}_{value}"
CategoryName(prefix, value) == prefix \o "_" \o Stringify(value)

\* f"{column_name}_Temp"
TempColumnName(name) == name \o "_Temp"

\* the columns of df.drop(labels, axis=1, errors="ignore")
DropColumns(df, labels) == SelectSeq(df, LAMBDA col : col.name \notin Range(labels))

\* the columns of df after df[name] = vals: an existing column is replaced
\* where it stands, a new one is appended
SetColumn(df, name, vals) ==
    IF HasColumn(df, name)
    THEN [df EXCEPT ![ColIndex(df, name)] = [name |-> name, vals |-> vals]]
    ELSE Append(df, [name |-> name, vals |-> vals])

----------------------------------------------------------------------------
(* pandas operations on frame objects: heap is the sequence of the frames  *)
(* that exist, ref the index of the frame operated on                      *)

\* df.drop(labels, axis=1, errors="ignore"): a new frame, df itself untouched
dropInplace(heap, ref, labels) ==
    [heap |-> [heap EXCEPT ![ref] = DropColumns(heap[ref], labels)], ref |-> ref]

drop(heap, ref, labels) ==
    [heap |-> Append(heap, DropColumns(heap[ref], labels)), ref |-> Len(heap) + 1]

\* df[name] = vals: changes the frame df refers to
setitem(heap, ref, name, vals) ==
    [heap EXCEPT ![ref] = SetColumn(heap[ref], name, vals)]

\* the levels get_dummies makes columns for: the distinct non-missing
\* values, sorted (dummy_na=False leaves the missing value out)
LevelsByAppearance(vals) == SelectSeq(unique(vals), LAMBDA v : ~isna(v))

Levels(vals) == SortValues({v \in Range(vals) : ~isna(v)})

\* _get_dummies_1d: one float column per level, 1.0 where the row holds the
\* level and 0.0 elsewhere (a row holding the missing value is all 0.0)
Dummies1d(vals, prefix) ==
    LET levels == Levels(vals)
    IN [i \in 1..Len(levels) |->
          [name |-> CategoryName(prefix, levels[i]),
           vals |-> [r \in 1..Len(vals) |->
                       IF vals[r] = levels[i] THEN FloatVal("1.0")
                                              ELSE FloatVal("0.0")]]]

RECURSIVE DummiesOf(_, _, _, _)
DummiesOf(df, prefix, columns, i) ==
    IF i > Len(columns) THEN <<>>
    ELSE (IF HasColumn(df, columns[i])
          THEN Dummies1d(df[ColIndex(df, columns[i])].vals, prefix)
          ELSE <<>>)
         \o DummiesOf(df, prefix, columns, i + 1)

\* pd.get_dummies(df, prefix=prefix, columns=columns, dtype=float): a new
\* frame holding the columns not encoded, in their order, then the dummies
get_dummies(heap, ref, prefix, columns) ==
    [heap |-> Append(heap, DropColumns(heap[ref], columns)
                           \o DummiesOf(heap[ref], prefix, columns, 1)),
     ref |-> Len(heap) + 1]

\* columns=[temp_column_name]
EncodeOriginalColumn(name) == <<name>>

EncodedColumns(name) == <<TempColumnName(name)>>

\* [f"{column_name}_{value}" for value in df[column_name].unique()]
CategoriesOf(name, vals) ==
    LET u == unique(vals) IN [i \in 1..Len(u) |-> CategoryName(name, u[i])]

Raised(heap) == [raised |-> TRUE, heap |-> heap, df |-> 0, categories |-> <<>>]

----------------------------------------------------------------------------
(* onehot_encode(df, column_name) -> (df, categories) *)

onehot_encode(heap, df, name) ==
    LET col == getitem(heap[df], name)
    IN IF col.raised THEN Raised(heap)
       ELSE
         LET cats == CategoriesOf(name, col.vals)
             d    == drop(heap, df, cats)
             src  == getitem(d.heap[d.ref], name)
         IN IF src.raised THEN Raised(d.heap)
            ELSE
              LET s == setitem(d.heap, d.ref, TempColumnName(name), src.vals)
                  g == get_dummies(s, d.ref, name, EncodedColumns(name))
              IN [raised |-> FALSE, heap |-> g.heap, df |-> g.ref,
                  categories |-> cats]

----------------------------------------------------------------------------
(* The input tables *)

Digits == <<"1", "2", "3", "4", "5", "6", "7", "8", "9">>

\* what a column other than the categorical one holds at row r
Filler(name, r) ==
    IF name = "id" THEN IntVal(Digits[r])
    ELSE IF r % 2 = 1 THEN FloatVal("1.0") ELSE FloatVal("0.0")

Layouts ==
    {l \in UNION {[1..n -> ColNames] : n \in 1..MaxCols} :
        \A i, j \in 1..Len(l) : i # j => l[i] # l[j]}

MakeTable(layout, cv) ==
    [i \in 1..Len(layout) |->
       [name |-> layout[i],
        vals |-> IF layout[i] = "color" THEN cv
                 ELSE [r \in 1..Len(cv) |-> Filler(layout[i], r)]]]

NoResult == [table |-> NoFrame, categories |-> <<>>]

Init ==
    /\ \E layout \in Layouts, n \in 1..MaxRows :
         \E cv \in [1..n -> CatValues] : table = MakeTable(layout, cv)
    /\ column_name \in ArgNames
    /\ before = NoFrame
    /\ status = "ready"
    /\ ret = NoFrame
    /\ categories = <<>>
    /\ prev = NoResult
    /\ mode = "first"

\* the caller runs onehot_encode(table, column_name)
Encode ==
    /\ status = "ready"
    /\ LET r == onehot_encode(<<table>>, 1, column_name)
       IN /\ table' = r.heap[1]
          /\ status' = IF r.raised THEN "raised" ELSE "returned"
          /\ ret' = IF r.raised THEN NoFrame ELSE r.heap[r.df]
          /\ categories' = r.categories
    /\ before' = table
    /\ UNCHANGED <<column_name, prev, mode>>

\* the caller keeps the result and calls again on the same table
CallAgain ==
    /\ status = "returned"
    /\ mode = "first"
    /\ prev' = [table |-> ret, categories |-> categories]
    /\ mode' = "again"
    /\ status' = "ready"
    /\ ret' = NoFrame
    /\ categories' = <<>>
    /\ UNCHANGED <<table, before, column_name>>

\* the caller copies the original column back into the result,
\* T1[column_name] = T[column_name], and re-encodes T1
CopyBack ==
    /\ status = "returned"
    /\ mode = "first"
    /\ HasColumn(table, column_name)
    /\ prev' = [table |-> ret, categories |-> categories]
    /\ table' = SetColumn(ret, column_name, getitem(table, column_name).vals)
    /\ mode' = "reencode"
    /\ status' = "ready"
    /\ ret' = NoFrame
    /\ categories' = <<>>
    /\ UNCHANGED <<before, column_name>>

Next == Encode \/ CallAgain \/ CopyBack

Spec == Init /\ [][Next]_vars

TypeOK ==
    /\ status \in {"ready", "returned", "raised"}
    /\ mode \in {"first", "again", "reencode"}
    /\ column_name \in ArgNames

----------------------------------------------------------------------------
(* Vocabulary of the properties: T is `before`, c is column_name, the      *)
(* returned pair is (ret, categories)                                      *)

Returned == status = "returned"

\* T[c], the values of the categorical column of the input
InputValues == getitem(before, column_name).vals

\* the row of the first appearance of v in vals
FirstIndex(vals, v) == CHOOSE r \in 1..Len(vals) :
                           vals[r] = v /\ \A q \in 1..(r - 1) : vals[q] # v

\* the positions of the columns of df called name
Positions(df, name) == {p \in 1..Len(df) : df[p].name = name}

IsIndicator(name) == name \in Range(categories)

One == FloatVal("1.0")
Zero == FloatVal("0.0")

\* the value of T[c] an indicator column name stands for
ValueOf(name) == CHOOSE v \in Range(InputValues) :
                     CategoryName(column_name, v) = name

----------------------------------------------------------------------------
(* C1: in the returned table every indicator column named in categories    *)
(* holds 0.0 or 1.0 at every row, and exactly one of them holds 1.0 at row *)
(* r: the one named c + "_" + stringify(T[c][r]).                          *)
C1_OneHotPerRow ==
    Returned =>
      \A r \in 1..NRows(before) : \A i \in 1..Len(categories) :
        /\ HasColumn(ret, categories[i])
        /\ LET x == ret[ColIndex(ret, categories[i])].vals[r]
           IN /\ x \in {Zero, One}
              /\ x = One <=>
                   categories[i] = CategoryName(column_name, InputValues[r])

(* C2: the returned table has no column named c.                           *)
C2_OriginalColumnAbsent ==
    Returned => ~HasColumn(ret, column_name)

(* C2, amended: the returned table still has the column named c, holding   *)
(* the values of T[c] row for row.                                         *)
C2_OriginalColumnKept ==
    Returned =>
      /\ Cardinality(Positions(ret, column_name)) = 1
      /\ ret[ColIndex(ret, column_name)].vals = InputValues

C2_Witness ==
    /\ Returned
    /\ HasColumn(ret, column_name)
    /\ \E p \in 1..Len(ret) : IsIndicator(ret[p].name)

(* C3: categories has exactly one entry per distinct value of T[c], entry  *)
(* i being c + "_" + stringify(v_i) for the distinct values v_1, v_2, ...  *)
(* of T[c] in order of first appearance by row.                            *)
C3_CategoriesInFirstAppearanceOrder ==
    Returned =>
      LET D == Range(InputValues)
      IN /\ Len(categories) = Cardinality(D)
         /\ \A v \in D :
              LET earlier == {w \in D : FirstIndex(InputValues, w)
                                          < FirstIndex(InputValues, v)}
              IN categories[Cardinality(earlier) + 1]
                   = column_name \o "_" \o Stringify(v)

C3_Witness ==
    /\ Returned
    /\ Len(categories) >= 2
    /\ categories[1] = "color_red"
    /\ categories[2] = "color_blue"

(* C4: the indicator columns come after all pre-existing columns and       *)
(* appear in the same order as the categories list.                        *)
C4_IndicatorsInCategoriesOrder ==
    Returned =>
      /\ \A p, q \in 1..Len(ret) :
           (~IsIndicator(ret[p].name) /\ IsIndicator(ret[q].name)) => p < q
      /\ \A i, j \in 1..Len(categories) :
           (i < j /\ HasColumn(ret, categories[i]) /\ HasColumn(ret, categories[j]))
             => ColIndex(ret, categories[i]) < ColIndex(ret, categories[j])

(* C4, amended: the indicator columns come after all pre-existing columns  *)
(* and appear in ascending sorted order of the values they stand for.      *)
C4_IndicatorsInSortedOrder ==
    Returned =>
      /\ \A p, q \in 1..Len(ret) :
           (~IsIndicator(ret[p].name) /\ IsIndicator(ret[q].name)) => p < q
      /\ \A p, q \in 1..Len(ret) :
           (p < q /\ IsIndicator(ret[p].name) /\ IsIndicator(ret[q].name))
             => PyLess(ValueOf(ret[p].name), ValueOf(ret[q].name))

C4_Witness ==
    /\ Returned
    /\ HasColumn(ret, "id")
    /\ categories = <<"color_red", "color_blue">>
    /\ ColIndex(ret, "color_blue") < ColIndex(ret, "color_red")
    /\ ColIndex(ret, "id") < ColIndex(ret, "color_blue")

(* C5: every column of T named neither c nor in categories (a column named *)
(* c + "_Temp" included) is in the returned table with the same values in  *)
(* the same row order, these columns keep their relative order, and the    *)
(* result has as many rows as T.                                           *)
C5_OtherColumnsKept ==
    Returned =>
      LET Other(i) == before[i].name # column_name /\ ~IsIndicator(before[i].name)
      IN /\ NRows(ret) = NRows(before)
         /\ \A i \in 1..Len(before) :
              Other(i) =>
                /\ Cardinality(Positions(ret, before[i].name)) = 1
                /\ ret[ColIndex(ret, before[i].name)].vals = before[i].vals
         /\ \A i, j \in 1..Len(before) :
              (i < j /\ Other(i) /\ Other(j)
                 /\ HasColumn(ret, before[i].name) /\ HasColumn(ret, before[j].name))
                => ColIndex(ret, before[i].name) < ColIndex(ret, before[j].name)

(* C6: when column_name is not a column of the table the call fails,       *)
(* returns nothing, and the caller's table holds after the failed call the *)
(* columns and values it held before.                                      *)
C6_MissingColumnRaises ==
    (status # "ready" /\ ~HasColumn(before, column_name)) =>
      /\ status = "raised"
      /\ ret = NoFrame
      /\ categories = <<>>
      /\ table = before

C6_Witness ==
    /\ status = "raised"
    /\ Len(before) >= 2
    /\ table = before

(* C7: after encoding T into (T1, cats1), copying c back into T1 and       *)
(* encoding T1 into (T2, cats2): the second call does not fail, cats2 =    *)
(* cats1, T2 has exactly one column for each name of cats1, and each       *)
(* indicator column of T2 equals the same-named column of T1.              *)
C7_ReencodeIdempotent ==
    (mode = "reencode" /\ status # "ready") =>
      /\ status = "returned"
      /\ categories = prev.categories
      /\ \A i \in 1..Len(prev.categories) :
           /\ Cardinality(Positions(ret, prev.categories[i])) = 1
           /\ Cardinality(Positions(prev.table, prev.categories[i])) = 1
           /\ ret[ColIndex(ret, prev.categories[i])].vals
                = prev.table[ColIndex(prev.table, prev.categories[i])].vals

(* C8: when T[c] holds a null, the returned table has an indicator column  *)
(* for null, named by the entry of categories for null, that holds 1.0     *)
(* exactly on the rows where T[c] is null.                                 *)
C8_NullIsACategory ==
    (Returned /\ NaN \in Range(InputValues)) =>
      \E i \in 1..Len(categories) :
        /\ categories[i] = CategoryName(column_name, NaN)
        /\ HasColumn(ret, categories[i])
        /\ \A r \in 1..NRows(before) :
             ret[ColIndex(ret, categories[i])].vals[r] = One
               <=> InputValues[r] = NaN

(* C9: after a successful call the caller's table has the column names,    *)
(* column order and values it had before the call, and calling again on    *)
(* the same table returns the same table and categories list.              *)
C9_InputUntouched ==
    /\ Returned => table = before
    /\ (Returned /\ mode = "again") =>
         /\ ret = prev.table
         /\ categories = prev.categories

C9_Witness ==
    /\ Returned
    /\ mode = "again"
    /\ \E i \in 1..Len(categories) : HasColumn(table, categories[i])
    /\ ~HasColumn(table, TempColumnName(column_name))
    /\ Len(ret) # Len(table)

(* C10: the entries of categories are pairwise distinct, each is the name  *)
(* of exactly one column of the returned table, and the returned table has *)
(* no other column created by the call.                                    *)
C10_CategoriesNameTheIndicators ==
    Returned =>
      /\ \A i, j \in 1..Len(categories) : i # j => categories[i] # categories[j]
      /\ \A i \in 1..Len(categories) :
           Cardinality(Positions(ret, categories[i])) = 1
      /\ \A p \in 1..Len(ret) :
           IsIndicator(ret[p].name) \/ HasColumn(before, ret[p].name)

====
